---- MODULE Spec2Model ----
(***************************************************************************)
(* Model of the queue service of AI-Invoice-OCR (backend queue service,    *)
(* src/unnamed/part_000): the status map, the better-queue worker, the     *)
(* deferred buffer trigger, the retry/fallback orchestration and the OCR   *)
(* response normalization.                                                 *)
(***************************************************************************)
EXTENDS Integers, Sequences, FiniteSets, TLC

(***************************************************************************)
(* Bounds of the model.                                                    *)
(***************************************************************************)
\* number of job ids uuidv4() can hand out in one behaviour
MaxJobs == 1
\* longest array payload an OCR endpoint returns
MaxLen == 3
\* number of distinct clock readings (Date.now()) that are told apart
MaxTime == 2

\* the ids handed out in the specification of the worker pool
PoolJobs == 4

\* the ids handed out in the specification of the service with lookups
PairJobs == 2

\* the heartbeat ticks of one run in the specifications with several jobs
MaxTicks == 1

(***************************************************************************)
(* Program constants.                                                      *)
(***************************************************************************)
MAX_RETRIES == 2
\* { concurrent: 3 }
concurrent == 3
\* progress += 5
ProgressStep == 5
\* if (progress <= 90)
ProgressCap == 90

(***************************************************************************)
(* JSON values.  Every value of one kind is a record with the same fields, *)
(* so that any two of them can be compared.                                *)
(*   field  : k = "undefined" (key absent), "falsy" (null, "", 0),         *)
(*            "object" ({value, is_confident}); t is the clock reading a   *)
(*            generated placeholder was derived from, 0 otherwise.         *)
(*   items  : k = "undefined", "other" (present, not an array), "array".   *)
(*   output : k = "undefined", "falsy", "scalar" (truthy non-object),      *)
(*            "object"; output_key is the key `output` inside `output`     *)
(*            (copied there by an object spread).                          *)
(***************************************************************************)
Undef == [k |-> "undefined", value |-> "", is_confident |-> FALSE, t |-> 0]

Falsy == [k |-> "falsy", value |-> "", is_confident |-> FALSE, t |-> 0]

Fld(v, c) == [k |-> "object", value |-> v, is_confident |-> c, t |-> 0]

\* a field is truthy iff it is an object
Truthy(f) == f.k = "object"

NoItems == [k |-> "undefined", list |-> <<>>]

OtherItems == [k |-> "other", list |-> <<>>]

ItemsArr(s) == [k |-> "array", list |-> s]

FieldNames == {"nomor_referensi", "nama_supplier", "tanggal_faktur", "tgl_jatuh_tempo"}

OutRec(kind, nr, ns, tf, jt, it, ok) ==
    [k |-> kind, nomor_referensi |-> nr, nama_supplier |-> ns,
     tanggal_faktur |-> tf, tgl_jatuh_tempo |-> jt, items |-> it, output_key |-> ok]

NoOutput == OutRec("undefined", Undef, Undef, Undef, Undef, NoItems, "undefined")

FalsyOutput == OutRec("falsy", Undef, Undef, Undef, Undef, NoItems, "undefined")

ScalarOutput == OutRec("scalar", Undef, Undef, Undef, Undef, NoItems, "undefined")

\* `x.output` is truthy
HasOutput(o) == o.output.k \in {"scalar", "object"}

ObjRec(nr, ns, tf, jt, out) ==
    [nomor_referensi |-> nr, nama_supplier |-> ns, tanggal_faktur |-> tf,
     tgl_jatuh_tempo |-> jt, output |-> out]

EmptyObj == ObjRec(Undef, Undef, Undef, Undef, NoOutput)

\* payloads and array elements: k = "null", "scalar", "object", "array"
Null == [k |-> "null", obj |-> EmptyObj, arr |-> <<>>]

Scalar == [k |-> "scalar", obj |-> EmptyObj, arr |-> <<>>]

Object(o) == [k |-> "object", obj |-> o, arr |-> <<>>]

Array(s) == [k |-> "array", obj |-> EmptyObj, arr |-> s]

ElemNull == [k |-> "null", obj |-> EmptyObj]

ElemScalar == [k |-> "scalar", obj |-> EmptyObj]

ElemObject(o) == [k |-> "object", obj |-> o]

(***************************************************************************)
(* The normalization of a successful response (worker lines 263-333, the   *)
(* same text in processQueuedFile lines 802-872).                          *)
(***************************************************************************)
\* { value: `INV-${Date.now()}`, is_confident: c }
InvPlaceholder(now, c) == [k |-> "object", value |-> "INV-", is_confident |-> c, t |-> now]

UnknownSupplier == Fld("Unknown Supplier", FALSE)

\* the date placeholder marked confident
TodayPlaceholderConfident(now) == [k |-> "object", value |-> "today", is_confident |-> TRUE, t |-> now]

\* { value: new Date().toISOString().split('T')[0], is_confident: false }
TodayPlaceholder(now) == [k |-> "object", value |-> "today", is_confident |-> FALSE, t |-> now]

EmptyDue == Fld("", FALSE)

\* ocrData.find(item => item.output): the index of the first element with a
\* truthy output, 0 when there is none, -1 when reading `.output` of a null
\* element throws before a match
RECURSIVE FindOutputFrom(_, _)
FindOutputFrom(arr, i) ==
    IF i > Len(arr) THEN 0
    ELSE IF arr[i].k = "null" THEN -1
    ELSE IF arr[i].k = "object" /\ HasOutput(arr[i].obj) THEN i
    ELSE FindOutputFrom(arr, i + 1)

FindOutput(arr) == FindOutputFrom(arr, 1)

\* findPropertyInArray: [threw, found, val]
RECURSIVE FindPropFrom(_, _, _)
FindPropFrom(arr, name, i) ==
    IF i > Len(arr) THEN [threw |-> FALSE, found |-> FALSE, val |-> Undef]
    ELSE IF arr[i].k = "null" THEN [threw |-> TRUE, found |-> FALSE, val |-> Undef]
    ELSE IF arr[i].k = "object" /\ Truthy(arr[i].obj[name])
         THEN [threw |-> FALSE, found |-> TRUE, val |-> arr[i].obj[name]]
    ELSE IF arr[i].k = "object" /\ arr[i].obj.output.k = "object"
            /\ Truthy(arr[i].obj.output[name])
         THEN [threw |-> FALSE, found |-> TRUE, val |-> arr[i].obj.output[name]]
    ELSE FindPropFrom(arr, name, i + 1)

findPropertyInArray(arr, name) == FindPropFrom(arr, name, 1)

\* findPropertyInArray(ocrData, name) || dflt
OrDefault(r, dflt) == IF r.found THEN r.val ELSE dflt

\* items that start out as a list with an entry
ThirdItemsNonEmpty(arr) ==
    IF /\ Len(arr) >= 3
       /\ arr[3].k = "object"
       /\ arr[3].obj.output.k = "object"
       /\ arr[3].obj.output.items.k = "array"
    THEN arr[3].obj.output.items
    ELSE ItemsArr(<<"item">>)

\* the items of the synthesized object: [] unless ocrData[2].output.items is an array
ThirdItems(arr) ==
    IF /\ Len(arr) >= 3
       /\ arr[3].k = "object"
       /\ arr[3].obj.output.k = "object"
       /\ arr[3].obj.output.items.k = "array"
    THEN arr[3].obj.output.items
    ELSE ItemsArr(<<>>)

\* the object built from an array none of whose elements has an output
Synthesize(arr, now) ==
    ObjRec(Undef, Undef, Undef, Undef,
        OutRec("object",
            OrDefault(findPropertyInArray(arr, "nomor_referensi"), InvPlaceholder(now, FALSE)),
            OrDefault(findPropertyInArray(arr, "nama_supplier"), UnknownSupplier),
            OrDefault(findPropertyInArray(arr, "tanggal_faktur"), TodayPlaceholder(now)),
            OrDefault(findPropertyInArray(arr, "tgl_jatuh_tempo"), EmptyDue),
            ThirdItems(arr), "undefined"))

\* lines 264-293: [threw, isObj, obj]; isObj is FALSE for a scalar base
SelectBase(ocrData, now) ==
    IF ocrData.k = "array"
    THEN LET i == FindOutput(ocrData.arr) IN
         IF i = -1 THEN [threw |-> TRUE, isObj |-> FALSE, obj |-> EmptyObj]
         ELSE IF i > 0 THEN [threw |-> FALSE, isObj |-> TRUE, obj |-> ocrData.arr[i].obj]
         ELSE IF \E n \in FieldNames : findPropertyInArray(ocrData.arr, n).threw
              THEN [threw |-> TRUE, isObj |-> FALSE, obj |-> EmptyObj]
         ELSE [threw |-> FALSE, isObj |-> TRUE, obj |-> Synthesize(ocrData.arr, now)]
    ELSE IF ocrData.k = "null"
    THEN [threw |-> TRUE, isObj |-> FALSE, obj |-> EmptyObj]
    ELSE [threw |-> FALSE, isObj |-> ocrData.k = "object", obj |-> ocrData.obj]

\* lines 295-306: { output: { ...(typeof base === 'object' ? base : {}), items: [] } }
\* when base.output is falsy; b is [isObj, obj]
WrapOutput(b) ==
    LET o == IF b.isObj THEN b.obj ELSE EmptyObj IN
    ObjRec(Undef, Undef, Undef, Undef,
        OutRec("object", o.nomor_referensi, o.nama_supplier, o.tanggal_faktur,
               o.tgl_jatuh_tempo, ItemsArr(<<>>),
               IF o.output.k = "falsy" THEN "falsy" ELSE "undefined"))

EnsureOutput(b) == IF ~HasOutput(b.obj) THEN WrapOutput(b) ELSE b.obj

\* the backfill with the invoice date generated anew whenever the one at hand
\* is not confident
EnsureEssentialRegenerates(o, now) ==
    IF o.output.k # "object" THEN o
    ELSE [o EXCEPT
            !.output.nomor_referensi =
                IF ~Truthy(@) THEN InvPlaceholder(now, TRUE) ELSE @,
            !.output.nama_supplier =
                IF ~Truthy(@) THEN UnknownSupplier ELSE @,
            !.output.tanggal_faktur =
                IF ~Truthy(@) \/ ~@.is_confident THEN TodayPlaceholder(now) ELSE @,
            !.output.items =
                IF @.k # "array" THEN ItemsArr(<<>>) ELSE @]

\* lines 308-333: the backfill of output and the coercion of items; an
\* assignment to a property of a primitive (a scalar output) is dropped in
\* sloppy mode
EnsureEssential(o, now) ==
    IF o.output.k # "object" THEN o
    ELSE [o EXCEPT
            !.output.nomor_referensi =
                IF ~Truthy(@) THEN InvPlaceholder(now, TRUE) ELSE @,
            !.output.nama_supplier =
                IF ~Truthy(@) THEN UnknownSupplier ELSE @,
            !.output.tanggal_faktur =
                IF ~Truthy(@) THEN TodayPlaceholder(now) ELSE @,
            !.output.items =
                IF @.k # "array" THEN ItemsArr(<<>>) ELSE @]

\* the whole normalization: [threw, data]
Normalize(ocrData, now) ==
    LET b == SelectBase(ocrData, now) IN
    IF b.threw THEN [threw |-> TRUE, data |-> EmptyObj]
    ELSE [threw |-> FALSE, data |-> EnsureEssential(EnsureOutput(b), now)]

\* lines 336-344 (worker only): processedOcrData.output.items.length throws
\* when output is a primitive
LogFinalStructureThrows(o) == o.output.k # "object"

(***************************************************************************)
(* The state of the service.                                               *)
(***************************************************************************)
VARIABLES
    env,                \* process.env, read once when the module loads
    processingStatus,   \* the Map of status records, by id
    run,                \* the locals of the processing run of each id
    queue,              \* the tasks pushed to processingQueue and not yet started
    files,              \* the paths that exist on disk
    settled,            \* the last settlement of a processQueuedFile promise
    returned,           \* what the operation just run returned, when it is a lookup
    nIn, nOut1, nOut2, nPc, \* the normalizer applied to a payload, then to its result
    nNow                    \* the clock reading of its last application

jobVars == <<env, processingStatus, run, queue, files, settled, returned>>

normVars == <<nIn, nOut1, nOut2, nPc, nNow>>

vars == <<env, processingStatus, run, queue, files, settled, returned,
         nIn, nOut1, nOut2, nPc, nNow>>

\* an id no submission ever returned
UnknownId == 0

\* the keys the status map can hold: UnknownId and the first n ids uuidv4() generates
Ids(n) == {UnknownId} \cup (1..n)

AllIds == DOMAIN processingStatus

\* the ids uuidv4() generates
JobIds == AllIds \ {UnknownId}

Times == 1..MaxTime

\* the names buffers are submitted under
Filenames == {"a.pdf", "b.pdf"}

PrimaryUrl == "http://amien-server:5678/webhook"

FallbackUrl == "http://localhost:1880/testingupload"

OCR_API_ENDPOINT == env.OCR_API_ENDPOINT

FALLBACK_OCR_API_ENDPOINT == env.FALLBACK_OCR_API_ENDPOINT

IS_DEV_MODE == env.NODE_ENV = "development"

USE_MOCK_DATA == IS_DEV_MODE /\ env.USE_MOCK_DATA = "true"

(***************************************************************************)
(* Status records.  result is null, an OCR result (k = "result"), the      *)
(* result of createMockResult (k = "mock") or { message }.  A missing      *)
(* progress key is NoProgress.                                             *)
(***************************************************************************)
NoMsg == <<"", 0>>

\* no ocrData in a result; also the value of the variables a specification leaves out
NoData == <<>>

NullResult == [k |-> "null", ocrData |-> NoData, message |-> NoMsg]

OcrResult(data) == [k |-> "result", ocrData |-> data, message |-> NoMsg]

ErrorResult(msg) == [k |-> "message", ocrData |-> NoData, message |-> msg]

MockOcrData ==
    ObjRec(Fld("SSP318905", TRUE), Fld("PT SUKSES SEJATI PERKASA", TRUE),
           Fld("26-02-2025", TRUE), Fld("05-03-2025", TRUE),
           OutRec("object", Undef, Undef, Undef, Undef,
                  ItemsArr(<<"12540202", "12540203">>), "undefined"))

createMockResult == [k |-> "mock", ocrData |-> MockOcrData, message |-> NoMsg]

NoProgress == -1

NoRec ==
    [present |-> FALSE, status |-> "", result |-> NullResult, progress |-> NoProgress,
     fileInfo |-> "undefined", buffer |-> FALSE, originalFilename |-> ""]

\* the record updateStatus stores: no buffer, no originalFilename
StatusRec(status, result, progress, fileInfo) ==
    [present |-> TRUE, status |-> status, result |-> result, progress |-> progress,
     fileInfo |-> fileInfo, buffer |-> FALSE, originalFilename |-> ""]

\* an update that merges status and progress into the record it finds
updateStatusMerges(ps, fileId, status, result, progress, fileInfo) ==
    [ps EXCEPT ![fileId] = [@ EXCEPT !.present = TRUE, !.status = status,
                                     !.progress = progress, !.fileInfo = fileInfo]]

\* updateStatus: lines 387-398
updateStatus(ps, fileId, status, result, progress, fileInfo) ==
    [ps EXCEPT ![fileId] = StatusRec(status, result, progress, fileInfo)]

\* the record queueBuffer stores
BufferRec(name) ==
    [present |-> TRUE, status |-> "queued", result |-> NullResult, progress |-> NoProgress,
     fileInfo |-> "undefined", buffer |-> TRUE, originalFilename |-> name]

(***************************************************************************)
(* The locals of a run.                                                    *)
(***************************************************************************)
NoRun ==
    [path |-> "", pc |-> "none", retryCount |-> 0, lastError |-> NoMsg,
     progress |-> 0, timer |-> FALSE, calls |-> <<>>, notes |-> <<>>,
     cbs |-> <<>>, name |-> ""]

\* the error of the n-th call of a run
CallError(n) == <<"request failed", n>>

TypeError == <<"TypeError", 0>>

NoQueuedFile(id) == <<"No queued file found with ID", id>>

NoBuffer(id) == <<"File buffer not found for ID", id>>

NoSettle == [id |-> UnknownId, kind |-> "none", message |-> NoMsg, value |-> NullResult]

\* no lookup has just returned
NoReturn == [op |-> "none", id |-> UnknownId, value |-> <<>>]

UploadPath(id) == "uploads/" \o ToString(id)

TempPath(name) == "uploads/temp/" \o name

\* the worker runs between their start and their callback
Running == {i \in JobIds : run[i].path = "worker" /\ run[i].pc \in {"primary", "fallback"}}

\* the smallest id not handed out yet
FreshId == CHOOSE i \in JobIds :
    /\ ~processingStatus[i].present
    /\ \A j \in JobIds : j < i => processingStatus[j].present

HasFresh == \E i \in JobIds : ~processingStatus[i].present

(***************************************************************************)
(* The payloads a successful OCR call returns in the job machine.          *)
(***************************************************************************)
NR == Fld("INV-001", TRUE)

NS == Fld("PT ABC", TRUE)

TF == Fld("2025-01-02", TRUE)

JT == Fld("2025-02-02", FALSE)

TwoItems == ItemsArr(<<"item1", "item2">>)

JobPayloads ==
    { Object(ObjRec(Undef, Undef, Undef, Undef, OutRec("object", NR, NS, TF, JT, TwoItems, "undefined"))),
      Object(ObjRec(Undef, Undef, Undef, Undef, OutRec("object", NR, NS, TF, Undef, TwoItems, "undefined"))),
      Object(ObjRec(NR, NS, TF, JT, NoOutput)),
      Object(ObjRec(NR, Undef, Undef, Undef, ScalarOutput)),
      Null,
      Scalar,
      Array(<<>>),
      Array(<<ElemNull>>),
      Array(<<ElemObject(ObjRec(NR, Undef, Undef, Undef, NoOutput)), ElemScalar,
              ElemObject(ObjRec(Undef, NS, Undef, Undef, FalsyOutput))>>),
      Array(<<ElemScalar,
              ElemObject(ObjRec(Undef, Undef, Undef, Undef,
                         OutRec("object", NR, NS, TF, JT, TwoItems, "undefined")))>>) }

(***************************************************************************)
(* Submission.                                                             *)
(***************************************************************************)
\* queueFile(filePath, originalname): lines 401-415
queueFile ==
    /\ HasFresh
    /\ LET fileId == FreshId IN
       /\ processingStatus' = updateStatus(processingStatus, fileId, "queued", NullResult, 0, "file")
       /\ queue' = Append(queue, fileId)
       /\ files' = files \cup {UploadPath(fileId)}
    /\ UNCHANGED <<env, run, settled, normVars>>
    /\ returned' = NoReturn

\* a queueBuffer that also pushes the job to processingQueue
queueBufferEnqueues(originalFilename) ==
    /\ HasFresh
    /\ processingStatus' = [processingStatus EXCEPT ![FreshId] = BufferRec(originalFilename)]
    /\ queue' = Append(queue, FreshId)
    /\ UNCHANGED <<env, run, files, settled, normVars>>
    /\ returned' = NoReturn

\* queueBuffer(buffer, originalFilename, mimetype): lines 911-934
queueBuffer(originalFilename) ==
    /\ HasFresh
    /\ processingStatus' = [processingStatus EXCEPT ![FreshId] = BufferRec(originalFilename)]
    /\ UNCHANGED <<env, run, queue, files, settled, normVars>>
    /\ returned' = NoReturn

\* the cap test against 100
WithinCapLoose(progress) == progress <= 100

\* if (progress <= 90): lines 94 and 613
WithinCap(progress) == progress <= ProgressCap

(***************************************************************************)
(* The progress heartbeat: the setInterval callback of lines 92-99 (worker)*)
(* and 611-618 (processQueuedFile).  It fires between any two steps while  *)
(* the interval has not been cleared.                                      *)
(***************************************************************************)
progressInterval(fileId) ==
    /\ run[fileId].timer
    /\ LET progress == run[fileId].progress + ProgressStep IN
       IF WithinCap(progress)
       THEN /\ processingStatus' = updateStatus(processingStatus, fileId, "processing", NullResult,
                    progress, IF run[fileId].path = "worker" THEN "file" ELSE "null")
            /\ run' = [run EXCEPT ![fileId].progress = progress]
       ELSE /\ run' = [run EXCEPT ![fileId].progress = progress, ![fileId].timer = FALSE]
            /\ UNCHANGED processingStatus
    /\ UNCHANGED <<env, queue, files, settled, normVars>>
    /\ returned' = NoReturn

(***************************************************************************)
(* The worker of processingQueue: lines 76-384.                            *)
(***************************************************************************)
\* the loop test one short
WorkerRetriesOffByOne(retryCount) == retryCount < MAX_RETRIES

\* while (retryCount <= MAX_RETRIES && !successful): line 145
WorkerRetries(retryCount) == retryCount <= MAX_RETRIES

\* the fallback tried without comparing the endpoints
WorkerHasFallbackAlways == TRUE

\* if (OCR_API_ENDPOINT !== FALLBACK_OCR_API_ENDPOINT): line 199
WorkerHasFallback == OCR_API_ENDPOINT # FALLBACK_OCR_API_ENDPOINT

\* lines 228-240 and 244-256: everything failed; r is the run after the last failure
WorkerTerminalPolicy(fileId, r) ==
    IF IS_DEV_MODE
    THEN /\ processingStatus' = updateStatus(processingStatus, fileId, "completed",
                                             createMockResult, 100, "file")
         /\ run' = [run EXCEPT ![fileId] =
                        [r EXCEPT !.pc = "done", !.timer = FALSE, !.cbs = Append(@, "result")]]
    ELSE /\ processingStatus' = updateStatus(processingStatus, fileId, "error",
                                             ErrorResult(r.lastError), 0, "null")
         /\ run' = [run EXCEPT ![fileId] =
                        [r EXCEPT !.pc = "done", !.timer = FALSE, !.cbs = Append(@, "error")]]

\* a catch that records the error and does not call cb
WorkerFinishSilentCatch(fileId, r, ocrData, now) ==
    LET n == Normalize(ocrData, now) IN
    IF n.threw \/ LogFinalStructureThrows(n.data)
    THEN /\ processingStatus' = updateStatus(processingStatus, fileId, "error",
                                             ErrorResult(TypeError), 0, "null")
         /\ run' = [run EXCEPT ![fileId] = [r EXCEPT !.pc = "done"]]
    ELSE /\ processingStatus' = updateStatus(processingStatus, fileId, "completed",
                                             OcrResult(n.data), 100, "file")
         /\ run' = [run EXCEPT ![fileId] =
                        [r EXCEPT !.pc = "done", !.timer = FALSE, !.cbs = Append(@, "result")]]

\* lines 261-378: the response is normalized and stored; an exception is caught
\* at line 374, which leaves the interval running
WorkerFinish(fileId, r, ocrData, now) ==
    LET n == Normalize(ocrData, now) IN
    IF n.threw \/ LogFinalStructureThrows(n.data)
    THEN /\ processingStatus' = updateStatus(processingStatus, fileId, "error",
                                             ErrorResult(TypeError), 0, "null")
         /\ run' = [run EXCEPT ![fileId] = [r EXCEPT !.pc = "done", !.cbs = Append(@, "error")]]
    ELSE /\ processingStatus' = updateStatus(processingStatus, fileId, "completed",
                                             OcrResult(n.data), 100, "file")
         /\ run' = [run EXCEPT ![fileId] =
                        [r EXCEPT !.pc = "done", !.timer = FALSE, !.cbs = Append(@, "result")]]

\* lines 76-156: the queue starts the task at its head when a slot is free;
\* the worker runs to its first await
WorkerStart(fileId) ==
    /\ queue # <<>>
    /\ fileId = Head(queue)
    /\ Cardinality(Running) < concurrent
    /\ queue' = Tail(queue)
    /\ IF USE_MOCK_DATA
       THEN /\ processingStatus' = updateStatus(processingStatus, fileId, "completed",
                                                createMockResult, 100, "file")
            /\ run' = [run EXCEPT ![fileId] =
                        [NoRun EXCEPT !.path = "worker", !.pc = "done", !.cbs = <<"result">>]]
            /\ files' = files \ {UploadPath(fileId)}
       ELSE /\ processingStatus' = updateStatus(processingStatus, fileId, "processing",
                                                NullResult, 0, "file")
            /\ run' = [run EXCEPT ![fileId] =
                        [NoRun EXCEPT !.path = "worker", !.pc = "primary", !.timer = TRUE,
                                      !.calls = <<OCR_API_ENDPOINT>>]]
            /\ UNCHANGED files
    /\ UNCHANGED <<env, settled, normVars>>
    /\ returned' = NoReturn

\* lines 145-175 and 261-373: a call of the primary endpoint succeeds
WorkerPrimaryOk(fileId, ocrData, now) ==
    /\ run[fileId].path = "worker"
    /\ run[fileId].pc = "primary"
    /\ WorkerFinish(fileId, run[fileId], ocrData, now)
    /\ UNCHANGED <<env, queue, files, settled, normVars>>
    /\ returned' = NoReturn

\* lines 176-258: a call of the primary endpoint fails
WorkerPrimaryFail(fileId) ==
    /\ run[fileId].path = "worker"
    /\ run[fileId].pc = "primary"
    /\ LET r1 == [run[fileId] EXCEPT !.lastError = CallError(Len(run[fileId].calls)),
                                     !.retryCount = @ + 1]
       IN
       IF WorkerRetries(r1.retryCount)
       THEN /\ run' = [run EXCEPT ![fileId] = [r1 EXCEPT !.calls = Append(@, OCR_API_ENDPOINT)]]
            /\ UNCHANGED processingStatus
       ELSE LET r2 == [r1 EXCEPT !.notes = Append(@, MAX_RETRIES + 1)] IN
            IF WorkerHasFallback
            THEN /\ run' = [run EXCEPT ![fileId] =
                        [r2 EXCEPT !.pc = "fallback",
                                   !.calls = Append(@, FALLBACK_OCR_API_ENDPOINT)]]
                 /\ UNCHANGED processingStatus
            ELSE WorkerTerminalPolicy(fileId, r2)
    /\ UNCHANGED <<env, queue, files, settled, normVars>>
    /\ returned' = NoReturn

\* lines 208-220 and 261-373: the call of the fallback endpoint succeeds
WorkerFallbackOk(fileId, ocrData, now) ==
    /\ run[fileId].path = "worker"
    /\ run[fileId].pc = "fallback"
    /\ WorkerFinish(fileId, run[fileId], ocrData, now)
    /\ UNCHANGED <<env, queue, files, settled, normVars>>
    /\ returned' = NoReturn

\* the fallback's failure without `lastError = fallbackError`
WorkerFallbackFailKeepsError(fileId) ==
    /\ run[fileId].path = "worker"
    /\ run[fileId].pc = "fallback"
    /\ WorkerTerminalPolicy(fileId,
            [run[fileId] EXCEPT !.notes = Append(@, MAX_RETRIES + 2)])
    /\ UNCHANGED <<env, queue, files, settled, normVars>>
    /\ returned' = NoReturn

\* lines 221-242: the call of the fallback endpoint fails
WorkerFallbackFail(fileId) ==
    /\ run[fileId].path = "worker"
    /\ run[fileId].pc = "fallback"
    /\ WorkerTerminalPolicy(fileId,
            [run[fileId] EXCEPT !.lastError = CallError(Len(run[fileId].calls)),
                                !.notes = Append(@, MAX_RETRIES + 2)])
    /\ UNCHANGED <<env, queue, files, settled, normVars>>
    /\ returned' = NoReturn

(***************************************************************************)
(* processQueuedFile(fileId): lines 586-902.                               *)
(***************************************************************************)
\* the promise resolved with the raw mock object instead of the stored result
ResolvedWithMock(fileId, result) ==
    [id |-> fileId, kind |-> "resolve", message |-> NoMsg, value |-> createMockResult]

\* resolve(result)
Resolved(fileId, result) ==
    [id |-> fileId, kind |-> "resolve", message |-> NoMsg, value |-> result]

\* reject(error)
Rejected(fileId, msg) ==
    [id |-> fileId, kind |-> "reject", message |-> msg, value |-> NullResult]

\* while (retryCount <= MAX_RETRIES && !successful): line 650
TriggerRetries(retryCount) == retryCount <= MAX_RETRIES

\* if (OCR_API_ENDPOINT !== FALLBACK_OCR_API_ENDPOINT): line 704
TriggerHasFallback == OCR_API_ENDPOINT # FALLBACK_OCR_API_ENDPOINT

\* lines 733-763 and 766-796: everything failed; r is the run after the last failure
TriggerTerminalPolicy(fileId, r) ==
    /\ files' = files \ {TempPath(r.name)}
    /\ IF IS_DEV_MODE
       THEN /\ processingStatus' = updateStatus(processingStatus, fileId, "completed",
                                                createMockResult, 100, "null")
            /\ run' = [run EXCEPT ![fileId] = [r EXCEPT !.pc = "done", !.timer = FALSE]]
            /\ settled' = Resolved(fileId, createMockResult)
       ELSE /\ processingStatus' = updateStatus(processingStatus, fileId, "error",
                                                ErrorResult(r.lastError), 0, "null")
            /\ run' = [run EXCEPT ![fileId] = [r EXCEPT !.pc = "done", !.timer = FALSE]]
            /\ settled' = Rejected(fileId, r.lastError)

\* lines 800-900: the response is normalized and stored; an exception is caught
\* at line 896, which leaves the interval running and the temporary file in place
TriggerFinish(fileId, r, ocrData, now) ==
    LET n == Normalize(ocrData, now) IN
    IF n.threw
    THEN /\ processingStatus' = updateStatus(processingStatus, fileId, "error",
                                             ErrorResult(TypeError), 0, "null")
         /\ run' = [run EXCEPT ![fileId] = [r EXCEPT !.pc = "done"]]
         /\ settled' = Rejected(fileId, TypeError)
         /\ UNCHANGED files
    ELSE /\ processingStatus' = updateStatus(processingStatus, fileId, "completed",
                                             OcrResult(n.data), 100, "null")
         /\ run' = [run EXCEPT ![fileId] = [r EXCEPT !.pc = "done", !.timer = FALSE]]
         /\ settled' = Resolved(fileId, OcrResult(n.data))
         /\ files' = files \ {TempPath(r.name)}

\* lines 586-598 and 896-900: no record, or a record without a buffer; the
\* throw lands in the catch of line 896
processQueuedFileNotFound(fileId) ==
    /\ ~processingStatus[fileId].present \/ ~processingStatus[fileId].buffer
    /\ LET msg == IF ~processingStatus[fileId].present
                  THEN NoQueuedFile(fileId) ELSE NoBuffer(fileId)
       IN /\ processingStatus' = updateStatus(processingStatus, fileId, "error",
                                              ErrorResult(msg), 0, "null")
          /\ settled' = Rejected(fileId, msg)
    /\ UNCHANGED <<env, run, queue, files, normVars>>
    /\ returned' = NoReturn

\* a start that merges the new status into the record and so keeps the buffer
processQueuedFileStartKeepsBuffer(fileId) ==
    /\ processingStatus[fileId].present
    /\ processingStatus[fileId].buffer
    /\ LET queuedItem == processingStatus[fileId] IN
       /\ processingStatus' = [processingStatus EXCEPT ![fileId] =
                [@ EXCEPT !.status = "processing", !.progress = 0, !.fileInfo = "buffer"]]
       /\ run' = [run EXCEPT ![fileId] =
                    [NoRun EXCEPT !.path = "trigger", !.pc = "primary", !.timer = TRUE,
                                  !.name = queuedItem.originalFilename,
                                  !.calls = <<OCR_API_ENDPOINT>>]]
       /\ files' = files \cup {TempPath(queuedItem.originalFilename)}
    /\ UNCHANGED <<env, queue, settled, normVars>>
    /\ returned' = NoReturn

\* lines 586-669: the record holds a buffer; the run goes to its first await
processQueuedFileStart(fileId) ==
    /\ processingStatus[fileId].present
    /\ processingStatus[fileId].buffer
    /\ LET queuedItem == processingStatus[fileId] IN
       /\ processingStatus' = updateStatus(processingStatus, fileId, "processing",
                                           NullResult, 0, "buffer")
       /\ run' = [run EXCEPT ![fileId] =
                    [NoRun EXCEPT !.path = "trigger", !.pc = "primary", !.timer = TRUE,
                                  !.name = queuedItem.originalFilename,
                                  !.calls = <<OCR_API_ENDPOINT>>]]
       /\ files' = files \cup {TempPath(queuedItem.originalFilename)}
    /\ UNCHANGED <<env, queue, settled, normVars>>
    /\ returned' = NoReturn

\* lines 650-680 and 800-894: a call of the primary endpoint succeeds
TriggerPrimaryOk(fileId, ocrData, now) ==
    /\ run[fileId].path = "trigger"
    /\ run[fileId].pc = "primary"
    /\ TriggerFinish(fileId, run[fileId], ocrData, now)
    /\ UNCHANGED <<env, queue, normVars>>
    /\ returned' = NoReturn

\* lines 681-797: a call of the primary endpoint fails
TriggerPrimaryFail(fileId) ==
    /\ run[fileId].path = "trigger"
    /\ run[fileId].pc = "primary"
    /\ LET r1 == [run[fileId] EXCEPT !.lastError = CallError(Len(run[fileId].calls)),
                                     !.retryCount = @ + 1]
       IN
       IF TriggerRetries(r1.retryCount)
       THEN /\ run' = [run EXCEPT ![fileId] = [r1 EXCEPT !.calls = Append(@, OCR_API_ENDPOINT)]]
            /\ UNCHANGED <<processingStatus, files, settled>>
       ELSE LET r2 == [r1 EXCEPT !.notes = Append(@, MAX_RETRIES + 1)] IN
            IF TriggerHasFallback
            THEN /\ run' = [run EXCEPT ![fileId] =
                        [r2 EXCEPT !.pc = "fallback",
                                   !.calls = Append(@, FALLBACK_OCR_API_ENDPOINT)]]
                 /\ UNCHANGED <<processingStatus, files, settled>>
            ELSE TriggerTerminalPolicy(fileId, r2)
    /\ UNCHANGED <<env, queue, normVars>>
    /\ returned' = NoReturn

\* lines 713-725 and 800-894: the call of the fallback endpoint succeeds
TriggerFallbackOk(fileId, ocrData, now) ==
    /\ run[fileId].path = "trigger"
    /\ run[fileId].pc = "fallback"
    /\ TriggerFinish(fileId, run[fileId], ocrData, now)
    /\ UNCHANGED <<env, queue, normVars>>
    /\ returned' = NoReturn

\* the fallback's failure without its notification
TriggerFallbackFailSilent(fileId) ==
    /\ run[fileId].path = "trigger"
    /\ run[fileId].pc = "fallback"
    /\ TriggerTerminalPolicy(fileId,
            [run[fileId] EXCEPT !.lastError = CallError(Len(run[fileId].calls))])
    /\ UNCHANGED <<env, queue, normVars>>
    /\ returned' = NoReturn

\* lines 726-764: the call of the fallback endpoint fails
TriggerFallbackFail(fileId) ==
    /\ run[fileId].path = "trigger"
    /\ run[fileId].pc = "fallback"
    /\ TriggerTerminalPolicy(fileId,
            [run[fileId] EXCEPT !.lastError = CallError(Len(run[fileId].calls)),
                                !.notes = Append(@, MAX_RETRIES + 2)])
    /\ UNCHANGED <<env, queue, normVars>>
    /\ returned' = NoReturn

(***************************************************************************)
(* The job machine.                                                        *)
(***************************************************************************)
Envs ==
    [NODE_ENV : {"development", "production"},
     USE_MOCK_DATA : {"true", "false"},
     OCR_API_ENDPOINT : {PrimaryUrl},
     FALLBACK_OCR_API_ENDPOINT : {PrimaryUrl, FallbackUrl}]

NormIdle ==
    /\ nIn = NoData
    /\ nOut1 = NoData
    /\ nOut2 = NoData
    /\ nPc = "off"
    /\ nNow = 0

Init ==
    /\ env \in Envs
    /\ processingStatus = [i \in Ids(MaxJobs) |-> NoRec]
    /\ run = [i \in Ids(MaxJobs) |-> NoRun]
    /\ queue = <<>>
    /\ files = {}
    /\ settled = NoSettle
    /\ returned = NoReturn
    /\ NormIdle

Next ==
    \/ queueFile
    \/ \E name \in Filenames : queueBuffer(name)
    \/ \E id \in AllIds : progressInterval(id)
    \/ \E id \in JobIds : WorkerStart(id)
    \/ \E id \in JobIds, p \in JobPayloads, now \in Times : WorkerPrimaryOk(id, p, now)
    \/ \E id \in JobIds : WorkerPrimaryFail(id)
    \/ \E id \in JobIds, p \in JobPayloads, now \in Times : WorkerFallbackOk(id, p, now)
    \/ \E id \in JobIds : WorkerFallbackFail(id)
    \/ \E id \in AllIds : processQueuedFileNotFound(id)
    \/ \E id \in JobIds : processQueuedFileStart(id)
    \/ \E id \in JobIds, p \in JobPayloads, now \in Times : TriggerPrimaryOk(id, p, now)
    \/ \E id \in JobIds : TriggerPrimaryFail(id)
    \/ \E id \in JobIds, p \in JobPayloads, now \in Times : TriggerFallbackOk(id, p, now)
    \/ \E id \in JobIds : TriggerFallbackFail(id)

Spec == Init /\ [][Next]_vars

(***************************************************************************)
(* Lookups: lines 417-429.                                                 *)
(***************************************************************************)
\* { id: fileId, status: 'not_found', progress: 0 }
NotFoundRec ==
    [present |-> TRUE, status |-> "not_found", result |-> NullResult, progress |-> 0,
     fileInfo |-> "undefined", buffer |-> FALSE, originalFilename |-> ""]

\* processingStatus.get(fileId) || { ...not_found }
StatusOf(fileId) ==
    IF processingStatus[fileId].present THEN processingStatus[fileId] ELSE NotFoundRec

\* a lookup that keeps the record it makes up
getFileStatusInserts(fileId) ==
    /\ returned' = [op |-> "getFileStatus", id |-> fileId, value |-> {<<fileId, StatusOf(fileId)>>}]
    /\ processingStatus' = [processingStatus EXCEPT ![fileId] = StatusOf(fileId)]
    /\ UNCHANGED <<env, run, queue, files, settled, normVars>>

\* getFileStatus(fileId): lines 418-424
getFileStatus(fileId) ==
    /\ returned' = [op |-> "getFileStatus", id |-> fileId, value |-> {<<fileId, StatusOf(fileId)>>}]
    /\ UNCHANGED <<env, processingStatus, run, queue, files, settled, normVars>>

\* getAllStatuses(): lines 427-429; the records with their ids, the order of
\* the array left out
getAllStatuses ==
    /\ returned' = [op |-> "getAllStatuses", id |-> UnknownId,
                    value |-> {<<i, processingStatus[i]>> :
                                  i \in {j \in AllIds : processingStatus[j].present}}]
    /\ UNCHANGED <<env, processingStatus, run, queue, files, settled, normVars>>

(***************************************************************************)
(* The service with several jobs: one environment (production, no separate *)
(* fallback endpoint), few payloads, and OCR calls quick enough for at     *)
(* most MaxTicks heartbeat ticks to pass in a run.                         *)
(***************************************************************************)
ServiceEnv ==
    [NODE_ENV |-> "production", USE_MOCK_DATA |-> "false",
     OCR_API_ENDPOINT |-> PrimaryUrl, FALLBACK_OCR_API_ENDPOINT |-> PrimaryUrl]

\* a payload with everything in place
FullPayload ==
    Object(ObjRec(Undef, Undef, Undef, Undef, OutRec("object", NR, NS, TF, JT, TwoItems, "undefined")))

FewPayloads == {FullPayload, Null}

InitJobs(n) ==
    /\ env = ServiceEnv
    /\ processingStatus = [i \in Ids(n) |-> NoRec]
    /\ run = [i \in Ids(n) |-> NoRun]
    /\ queue = <<>>
    /\ files = {}
    /\ settled = NoSettle
    /\ returned = NoReturn
    /\ NormIdle

\* the heartbeat of id has ticked fewer than MaxTicks times
TickWithin(id) == run[id].progress < MaxTicks * ProgressStep

\* id waits in processingQueue
InBacklog(id) == \E i \in DOMAIN queue : queue[i] = id

\* the worker pool: submissions through queueFile, responses that carry
\* FullPayload, and calls of processQueuedFile with the ids of waiting jobs
InitPool == InitJobs(PoolJobs)

NextPool ==
    \/ queueFile
    \/ \E id \in JobIds : TickWithin(id) /\ progressInterval(id)
    \/ \E id \in JobIds : WorkerStart(id)
    \/ \E id \in JobIds, now \in Times : WorkerPrimaryOk(id, FullPayload, now)
    \/ \E id \in JobIds : WorkerPrimaryFail(id)
    \/ \E id \in JobIds : InBacklog(id) /\ processQueuedFileNotFound(id)

SpecPool == InitPool /\ [][NextPool]_vars

\* two jobs of either kind
InitPair == InitJobs(PairJobs)

NextPair ==
    \/ queueFile
    \/ \E name \in Filenames : queueBuffer(name)
    \/ \E id \in JobIds : TickWithin(id) /\ progressInterval(id)
    \/ \E id \in JobIds : WorkerStart(id)
    \/ \E id \in JobIds, p \in FewPayloads, now \in Times : WorkerPrimaryOk(id, p, now)
    \/ \E id \in JobIds : WorkerPrimaryFail(id)
    \/ \E id \in AllIds : processQueuedFileNotFound(id)
    \/ \E id \in JobIds : processQueuedFileStart(id)
    \/ \E id \in JobIds, p \in FewPayloads, now \in Times : TriggerPrimaryOk(id, p, now)
    \/ \E id \in JobIds : TriggerPrimaryFail(id)

SpecPair == InitPair /\ [][NextPair]_vars

\* two jobs of either kind under any configuration, served by an OCR service
\* whose responses all carry the one payload nIn, normalized at the one
\* reading nNow of the clock; each call of a run succeeds or fails
InitTwin ==
    /\ env \in Envs
    /\ processingStatus = [i \in Ids(PairJobs) |-> NoRec]
    /\ run = [i \in Ids(PairJobs) |-> NoRun]
    /\ queue = <<>>
    /\ files = {}
    /\ settled = NoSettle
    /\ returned = NoReturn
    /\ nIn \in JobPayloads
    /\ nOut1 = NoData
    /\ nOut2 = NoData
    /\ nPc = "off"
    /\ nNow \in Times

NextTwin ==
    \/ queueFile
    \/ \E name \in Filenames : queueBuffer(name)
    \/ \E id \in JobIds : TickWithin(id) /\ progressInterval(id)
    \/ \E id \in JobIds : WorkerStart(id)
    \/ \E id \in JobIds : WorkerPrimaryOk(id, nIn, nNow)
    \/ \E id \in JobIds : WorkerPrimaryFail(id)
    \/ \E id \in JobIds : WorkerFallbackOk(id, nIn, nNow)
    \/ \E id \in JobIds : WorkerFallbackFail(id)
    \/ \E id \in JobIds : processQueuedFileStart(id)
    \/ \E id \in JobIds : TriggerPrimaryOk(id, nIn, nNow)
    \/ \E id \in JobIds : TriggerPrimaryFail(id)
    \/ \E id \in JobIds : TriggerFallbackOk(id, nIn, nNow)
    \/ \E id \in JobIds : TriggerFallbackFail(id)

SpecTwin == InitTwin /\ [][NextTwin]_vars

\* one job of either kind, and the lookups
InitStore == InitJobs(MaxJobs)

NextStore ==
    \/ NextPair
    \/ \E id \in AllIds : getFileStatus(id)
    \/ getAllStatuses

SpecStore == InitStore /\ [][NextStore]_vars

(***************************************************************************)
(* The normalizer on its own: a payload is normalized as a successful      *)
(* response is, and the object that comes out is normalized once more at a *)
(* later reading of the clock.                                             *)
(***************************************************************************)
FieldOpts(v) == {Undef, Falsy, v}

ItemOpts == {NoItems, OtherItems, ItemsArr(<<>>), TwoItems}

\* the output values of single objects
OutputOpts ==
    {NoOutput, FalsyOutput, ScalarOutput}
    \cup { OutRec("object", nr, ns, TF, jt, it, "undefined") :
             nr \in FieldOpts(NR), ns \in {Undef, NS}, jt \in FieldOpts(JT), it \in ItemOpts }
    \cup { OutRec("object", NR, NS, Undef, JT, TwoItems, "undefined") }

SingleObjects ==
    { ObjRec(nr, ns, tf, jt, out) :
        nr \in {Undef, Fld("REF-TOP", TRUE)}, ns \in {Undef, Falsy}, tf \in {Undef, TF},
        jt \in {Undef, Fld("DUE-TOP", TRUE)}, out \in OutputOpts }

\* the elements of array payloads
Elems ==
    {ElemNull, ElemScalar}
    \cup { ElemObject(ObjRec(nr, Undef, Undef, jt, out)) :
             nr \in {Undef, Fld("REF-TOP", TRUE)}, jt \in {Undef, Falsy},
             out \in { NoOutput, FalsyOutput,
                       OutRec("object", NR, NS, TF, Undef, TwoItems, "undefined") } }
    \cup { ElemObject(ObjRec(Fld("REF-2", FALSE), Undef, Undef, Undef, NoOutput)),
           ElemObject(ObjRec(Undef, Undef, Undef, Undef,
                      OutRec("object", Undef, NS, TF, Undef, TwoItems, "undefined"))) }

RECURSIVE SeqsUpTo(_, _)
SeqsUpTo(S, n) ==
    IF n = 0 THEN {<<>>}
    ELSE LET shorter == SeqsUpTo(S, n - 1) IN
         shorter \cup { Append(q, e) : q \in {x \in shorter : Len(x) = n - 1}, e \in S }

NormInputs ==
    {Null, Scalar}
    \cup { Object(o) : o \in SingleObjects }
    \cup { Array(q) : q \in SeqsUpTo(Elems, MaxLen) }

\* the result of a run is handed on as a single object
AsPayload(o) == Object(o)

NoOut == NoData

JobIdle ==
    /\ env = [NODE_ENV |-> "production", USE_MOCK_DATA |-> "false",
              OCR_API_ENDPOINT |-> PrimaryUrl, FALLBACK_OCR_API_ENDPOINT |-> FallbackUrl]
    /\ processingStatus = NoData
    /\ run = NoData
    /\ queue = <<>>
    /\ files = {}
    /\ settled = NoData
    /\ returned = NoData

InitNorm ==
    /\ JobIdle
    /\ nIn \in NormInputs
    /\ nOut1 = NoOut
    /\ nOut2 = NoOut
    /\ nPc = "input"
    /\ nNow = 0

\* the normalization of a response
NormApply(now) ==
    /\ nPc = "input"
    /\ nOut1' = Normalize(nIn, now)
    /\ nPc' = "once"
    /\ nNow' = now
    /\ UNCHANGED <<nIn, nOut2, jobVars>>

\* the normalization of what the normalization returned
NormReapply(now) ==
    /\ nPc = "once"
    /\ ~nOut1.threw
    /\ nOut2' = Normalize(AsPayload(nOut1.data), now)
    /\ nPc' = "twice"
    /\ nNow' = now
    /\ UNCHANGED <<nIn, nOut1, jobVars>>

NextNorm ==
    \/ \E now \in Times : NormApply(now)
    \/ \E now \in Times : NormReapply(now)

SpecNorm == InitNorm /\ [][NextNorm]_vars

(***************************************************************************)
(* Properties.                                                             *)
(***************************************************************************)
\* `output` is an object that carries the four required fields and an array of items
WellFormedOutput(o) ==
    /\ o.output.k = "object"
    /\ \A n \in FieldNames : Truthy(o.output[n])
    /\ o.output.items.k = "array"

\* a single object, or an array of objects
ObjectsPayload(p) ==
    \/ p.k = "object"
    \/ p.k = "array" /\ \A i \in 1..Len(p.arr) : p.arr[i].k = "object"

\* C1: for every payload that is a single object or an array of partial
\* objects, the normalization does not throw and the ocrData it returns has an
\* `output` with nomor_referensi, nama_supplier, tanggal_faktur,
\* tgl_jatuh_tempo and an array `items`.
C1_NormalizedOutputWellFormed ==
    (nPc \in {"once", "twice"} /\ ObjectsPayload(nIn))
        => (~nOut1.threw /\ WellFormedOutput(nOut1.data))

\* C3: normalizing an object the normalization returned gives that object
\* back: same output fields, values, confidence flags and items, whatever the
\* clock reads at the second application.
C3_NormalizeIdempotent ==
    nPc = "twice" => (~nOut2.threw /\ nOut2.data = nOut1.data)

\* C3 witness: an array payload got a generated reference number at clock
\* reading 1 and the result was normalized again at clock reading 2
C3_Witness ==
    /\ nPc = "twice"
    /\ nIn.k = "array"
    /\ nOut1.data.output.nomor_referensi = InvPlaceholder(1, FALSE)
    /\ nNow = 2

\* the record of id is in a terminal state
Completed(id) == processingStatus[id].present /\ processingStatus[id].status = "completed"

Errored(id) == processingStatus[id].present /\ processingStatus[id].status = "error"

\* C2: every record with status `completed` holds a result whose ocrData has
\* a well-formed `output` (the four required fields inside `output` and an
\* array of items), whether the result is a normalized payload or the
\* synthetic one.
C2_CompletedOutputWellFormed ==
    \A id \in AllIds :
        Completed(id) =>
            /\ processingStatus[id].result.k \in {"result", "mock"}
            /\ WellFormedOutput(processingStatus[id].result.ocrData)

\* the calls of a run that went to the primary endpoint before any other
PrimaryPrefix(r) ==
    \A i \in 1..Len(r.calls) : i <= MAX_RETRIES + 1 => r.calls[i] = OCR_API_ENDPOINT

\* C4: a run whose primary attempts all failed has issued exactly R+1 = 3
\* calls to the primary endpoint, all before the only call to the fallback
\* endpoint; a run that ended on a successful primary attempt has issued one
\* call per failure before it plus that attempt, and none after it.
C4_RetryBudget ==
    \A id \in JobIds :
        LET r == run[id] IN
        /\ PrimaryPrefix(r)
        /\ Len(r.calls) <= MAX_RETRIES + 2
        /\ r.retryCount > MAX_RETRIES =>
              /\ r.retryCount = MAX_RETRIES + 1
              /\ Len(r.calls) >= MAX_RETRIES + 1
              /\ Len(r.calls) = MAX_RETRIES + 2 =>
                    r.calls[MAX_RETRIES + 2] = FALLBACK_OCR_API_ENDPOINT
        /\ r.pc = "fallback" => (r.retryCount = MAX_RETRIES + 1 /\ Len(r.calls) = MAX_RETRIES + 2)
        /\ r.retryCount <= MAX_RETRIES /\ r.pc \in {"primary", "done"} /\ r.calls # <<>> =>
              Len(r.calls) = r.retryCount + 1

\* C4 witness: every primary attempt failed and the fallback is being called
C4_Witness ==
    \E id \in JobIds :
        /\ run[id].pc = "fallback"
        /\ run[id].calls = <<PrimaryUrl, PrimaryUrl, PrimaryUrl, FallbackUrl>>

\* C5: when the primary and the fallback endpoint are the same, no run ever
\* calls the fallback: a run issues at most R+1 calls, and once the primary
\* attempts are used up the run is over (synthetic result or error).
C5_FallbackSkipped ==
    env.OCR_API_ENDPOINT = env.FALLBACK_OCR_API_ENDPOINT =>
        \A id \in JobIds :
            /\ run[id].pc # "fallback"
            /\ Len(run[id].calls) <= MAX_RETRIES + 1
            /\ run[id].retryCount > MAX_RETRIES =>
                  /\ run[id].pc = "done"
                  /\ run[id].notes = <<MAX_RETRIES + 1>>

\* C5 witness: same endpoints, three failed primary attempts, the run is over
C5_Witness ==
    /\ env.OCR_API_ENDPOINT = env.FALLBACK_OCR_API_ENDPOINT
    /\ \E id \in JobIds :
         /\ run[id].retryCount = MAX_RETRIES + 1
         /\ run[id].pc = "done"
         /\ Len(run[id].calls) = MAX_RETRIES + 1

\* C6: a record with status `processing` never reports more than 90; from
\* one `processing` record of a job to the next the progress does not
\* decrease; progress 100 is only ever stored together with status
\* `completed`.
C6_ProgressMonotone ==
    /\ [](\A id \in AllIds :
            /\ processingStatus[id].status = "processing" =>
                  (processingStatus[id].progress >= 0
                      /\ processingStatus[id].progress <= ProgressCap)
            /\ processingStatus[id].progress = 100 => processingStatus[id].status = "completed")
    /\ [][\A id \in AllIds :
            (processingStatus[id].status = "processing"
                /\ processingStatus'[id].status = "processing")
              => processingStatus'[id].progress >= processingStatus[id].progress]_vars

\* C6 witness: the heartbeat has brought a processing record to the cap
C6_Witness ==
    \E id \in JobIds :
        /\ processingStatus[id].status = "processing"
        /\ processingStatus[id].progress = ProgressCap
        /\ run[id].progress > ProgressCap

\* C7: a `completed` record has progress 100 and an OCR result without an
\* error message; an `error` record has progress 0 and { message } without an
\* OCR result.
C7_TerminalRecordShape ==
    \A id \in AllIds :
        /\ Completed(id) =>
              /\ processingStatus[id].progress = 100
              /\ processingStatus[id].result.k \in {"result", "mock"}
              /\ processingStatus[id].result.ocrData # NoData
              /\ processingStatus[id].result.message = NoMsg
        /\ Errored(id) =>
              /\ processingStatus[id].progress = 0
              /\ processingStatus[id].result.k = "message"
              /\ processingStatus[id].result.message # NoMsg
              /\ processingStatus[id].result.ocrData = NoData

\* C7 witness: one record is completed with a normalized result while
\* another is in error
C7_Witness ==
    \E i, j \in AllIds :
        /\ Completed(i)
        /\ processingStatus[i].result.k = "result"
        /\ Errored(j)

\* C8: a call of processQueuedFile with an id that has no record is rejected
\* with the not-found error and leaves the status map as it was.
C8_UnknownIdLeavesStoreUnchanged ==
    [][\A id \in AllIds :
         (~processingStatus[id].present /\ settled' = Rejected(id, NoQueuedFile(id)))
            => processingStatus' = processingStatus]_vars

\* the step of a run in which an OCR call returns a response: the run ends
\* and no failure notification is sent
CallSucceeds(id) ==
    /\ run[id].pc \in {"primary", "fallback"}
    /\ run'[id].pc = "done"
    /\ run'[id].notes = run[id].notes

\* the step of a run in which its last OCR call fails and nothing is left to
\* try: the run ends on a failure notification
AllCallsFailed(id) ==
    /\ run[id].pc \in {"primary", "fallback"}
    /\ run'[id].pc = "done"
    /\ run'[id].notes # run[id].notes

\* C9: whatever the payload of a successful OCR call is (null, a scalar, an
\* empty array, an array with null or scalar elements included), the step
\* that receives it stores the job as `completed` with an OCR result, never
\* as `error` (what the output of that result holds is the subject of C1
\* and C2).
C9_MalformedPayloadAbsorbed ==
    [][\A id \in JobIds :
         CallSucceeds(id) =>
            /\ processingStatus'[id].status = "completed"
            /\ processingStatus'[id].result.k = "result"]_vars

Terminal(id) == Completed(id) \/ Errored(id)

\* nothing of the worker run of id is left to run: the callback was called
\* and the heartbeat has stopped
WorkerRunOver(id) ==
    /\ run[id].path = "worker"
    /\ run[id].pc = "done"
    /\ ~run[id].timer

\* C11: a job submitted with queueFile ends in a terminal status and stays
\* there: once its worker run is over and nothing of it is left to run, its
\* record is `completed` or `error`, whatever the calls returned.
C11_SettlesTerminal ==
    \A id \in JobIds : WorkerRunOver(id) => Terminal(id)

\* the step in which the processQueuedFile promise of id settles
Settles(id) == settled' # settled /\ settled'.id = id

\* the errors of a processing run, as opposed to the not-found errors
ProcessingError(msg) == msg[1] \in {"request failed", "TypeError"}

\* C14: when the promise of processQueuedFile(id) resolves, the record of id
\* is `completed` and holds the very result the promise resolved with; when
\* it rejects with a processing error, the record is `error` and holds that
\* error's message.
C14_SettledWithTerminalRecord ==
    [][\A id \in JobIds :
         Settles(id) =>
            /\ settled'.kind = "resolve" =>
                  /\ processingStatus'[id].status = "completed"
                  /\ processingStatus'[id].result = settled'.value
                  /\ settled'.value.k \in {"result", "mock"}
            /\ (settled'.kind = "reject" /\ ProcessingError(settled'.message)) =>
                  /\ processingStatus'[id].status = "error"
                  /\ processingStatus'[id].result = ErrorResult(settled'.message)]_vars

\* C14 witness: a promise has resolved with a normalized result whose
\* reference number was generated, and the record holds it
C14_Witness ==
    /\ settled.kind = "resolve"
    /\ settled.value.k = "result"
    /\ settled.value.ocrData.output.nomor_referensi.t > 0
    /\ Completed(settled.id)
    /\ run[settled.id].path = "trigger"

\* C18: the heartbeat of a run is cancelled when the run ends, on every exit
\* path, so no tick of it writes `processing` over the `completed` or `error`
\* record the run left.
C18_NoTickAfterTerminal ==
    [][\A id \in JobIds :
         (run[id].pc = "done" /\ Terminal(id))
            => processingStatus'[id].status # "processing"]_vars

\* the step in which the run of id calls the fallback endpoint
CallsFallback(id) ==
    /\ run'[id].calls # run[id].calls
    /\ Len(run'[id].calls) > MAX_RETRIES + 1

\* the step in which the fallback call of the run of id returns a response
FallbackSucceeds(id) == run[id].pc = "fallback" /\ CallSucceeds(id)

\* C19: a run calls the fallback endpoint at most once, and only when its
\* R+1 = 3 primary attempts have all failed and the fallback endpoint differs
\* from the primary one; when the fallback call returns a response, the job
\* is stored `completed` with progress 100 and the normalized payload, as
\* after a primary success.
C19_FallbackOncePayloadCompleted ==
    [][\A id \in JobIds :
         /\ CallsFallback(id) =>
               /\ env.OCR_API_ENDPOINT # env.FALLBACK_OCR_API_ENDPOINT
               /\ run[id].pc = "primary"
               /\ run[id].calls = <<env.OCR_API_ENDPOINT, env.OCR_API_ENDPOINT,
                                    env.OCR_API_ENDPOINT>>
               /\ run'[id].retryCount = MAX_RETRIES + 1
               /\ run'[id].calls = Append(run[id].calls, env.FALLBACK_OCR_API_ENDPOINT)
         /\ FallbackSucceeds(id) =>
               /\ processingStatus'[id].status = "completed"
               /\ processingStatus'[id].progress = 100
               /\ processingStatus'[id].result.k = "result"]_vars

\* the temporary file a processQueuedFile run wrote
TempFileOf(id) == TempPath(run[id].name)

\* C20: once the run of processQueuedFile(id) has settled after writing its
\* temporary file, that file no longer exists, whichever way the run ended.
C20_TempFileDeleted ==
    \A id \in JobIds :
        (run[id].path = "trigger" /\ run[id].pc = "done") => TempFileOf(id) \notin files

\* C12: at most 3 jobs submitted with queueFile are run by the worker pool
\* at any moment: a waiting job is started only when fewer than 3 are
\* running, and while 3 are running every job in the backlog keeps the
\* status `queued`.
C12_PoolBoundBacklogQueued ==
    [][/\ Cardinality(Running') <= concurrent
       /\ \A id \in JobIds :
             (InBacklog(id) /\ ~InBacklog(id)') => Cardinality(Running) < concurrent
       /\ Cardinality(Running') = concurrent =>
             \A id \in JobIds : InBacklog(id)' => processingStatus'[id].status = "queued"]_vars

\* the record queueBuffer stored for id is in place
BufferQueued(id) == processingStatus[id].present /\ processingStatus[id].buffer

\* C13: a job created by queueBuffer has status `queued`, holds its buffer,
\* is not in the queue of the worker pool and has no OCR call issued for it;
\* whatever step is taken, its record stays as it is, unless the step is
\* processQueuedFile starting on its id.
C13_BufferJobWaitsForTrigger ==
    [][\A id \in JobIds :
         BufferQueued(id) =>
            /\ processingStatus[id].status = "queued"
            /\ run[id] = NoRun
            /\ ~InBacklog(id)
            /\ ~InBacklog(id)'
            /\ \/ processingStatus'[id] = processingStatus[id] /\ run'[id] = NoRun
               \/ /\ run'[id].path = "trigger"
                  /\ run'[id].calls = <<env.OCR_API_ENDPOINT>>
                  /\ processingStatus'[id].status = "processing"]_vars

\* C13 witness: a buffered job is still queued with its buffer after a job
\* submitted later went through the worker pool and completed
C13_Witness ==
    \E b, o \in JobIds :
        /\ b < o
        /\ BufferQueued(b)
        /\ processingStatus[b].status = "queued"
        /\ run[o].path = "worker"
        /\ Completed(o)

\* C17: getFileStatus(id) returns the record stored for id, or a record with
\* status `not_found` and progress 0 when none is stored; getAllStatuses
\* returns the stored records, none of them `not_found`; neither changes
\* the status map, and no record with status `not_found` is ever stored.
C17_LookupsLeaveStore ==
    [][/\ returned'.op = "getFileStatus" =>
             /\ processingStatus' = processingStatus
             /\ \A e \in returned'.value :
                   /\ e[1] = returned'.id
                   /\ IF processingStatus[e[1]].present
                      THEN e[2] = processingStatus[e[1]]
                      ELSE e[2].status = "not_found" /\ e[2].progress = 0
             /\ Cardinality(returned'.value) = 1
       /\ returned'.op = "getAllStatuses" =>
             /\ processingStatus' = processingStatus
             /\ \A e \in returned'.value :
                   /\ processingStatus[e[1]].present
                   /\ e[2] = processingStatus[e[1]]
                   /\ e[2].status # "not_found"
             /\ \A id \in AllIds :
                   processingStatus[id].present => <<id, processingStatus[id]>> \in returned'.value
       /\ \A id \in AllIds : processingStatus'[id].status # "not_found"]_vars

\* C17 witness: a lookup of an id without a record has just returned
\* `not_found` while the status map holds the record of a job
C17_Witness ==
    /\ returned.op = "getFileStatus"
    /\ \E e \in returned.value : e[2].status = "not_found"
    /\ ~processingStatus[returned.id].present
    /\ \E id \in JobIds : processingStatus[id].present

\* the index of the first element of arr that is an object with an `output`
\* worth adopting (a truthy one), 0 when there is none
FirstWithOutput(arr) ==
    LET S == {i \in 1..Len(arr) : arr[i].k = "object" /\ HasOutput(arr[i].obj)} IN
    IF S = {} THEN 0 ELSE CHOOSE i \in S : \A j \in S : i <= j

\* C15: for an array payload with an element that has an `output`, the
\* normalization succeeds and returns what it returns for the first such
\* element alone: that element is the base, and nothing of the other
\* elements is in the result.
C15_FirstOutputElementAdopted ==
    (nPc = "once" /\ nIn.k = "array" /\ FirstWithOutput(nIn.arr) > 0) =>
        /\ ~nOut1.threw
        /\ nOut1 = Normalize(Object(nIn.arr[FirstWithOutput(nIn.arr)].obj), nNow)

\* the index of the first element of arr that defines the field name with a
\* value, 0 when there is none
FirstDefining(arr, name) ==
    LET S == {i \in 1..Len(arr) : arr[i].k = "object" /\ Truthy(arr[i].obj[name])} IN
    IF S = {} THEN 0 ELSE CHOOSE i \in S : \A j \in S : i <= j

\* the placeholder of a required field
DefaultOf(name, now) ==
    CASE name = "nomor_referensi" -> InvPlaceholder(now, FALSE)
      [] name = "nama_supplier" -> UnknownSupplier
      [] name = "tanggal_faktur" -> TodayPlaceholder(now)
      [] name = "tgl_jatuh_tempo" -> EmptyDue

\* C16: for an array payload none of whose elements has an `output`, the
\* normalization succeeds and each of the four required fields of the
\* `output` it builds is the field of the first element, in array order,
\* that defines it, and the placeholder of that field, with is_confident
\* false, when no element defines it.
C16_FieldsFromFirstDefiningElement ==
    (nPc = "once" /\ nIn.k = "array" /\ FirstWithOutput(nIn.arr) = 0) =>
        /\ ~nOut1.threw
        /\ \A name \in FieldNames :
              LET i == FirstDefining(nIn.arr, name) IN
              IF i > 0
              THEN nOut1.data.output[name] = nIn.arr[i].obj[name]
              ELSE /\ nOut1.data.output[name] = DefaultOf(name, nNow)
                   /\ ~nOut1.data.output[name].is_confident

\* the processQueuedFile run of id is between its start and its settlement
TriggerRunning(id) == run[id].path = "trigger" /\ run[id].pc \in {"primary", "fallback"}

\* C21: two buffered jobs whose processQueuedFile runs overlap use different
\* temporary files, also when they were submitted under the same filename,
\* and the temporary file of a run exists for as long as the run may read it
\* again for a retry or the fallback call.
C21_TempFilesDisjoint ==
    /\ \A i, j \in JobIds :
          (i # j /\ TriggerRunning(i) /\ TriggerRunning(j)) => TempFileOf(i) # TempFileOf(j)
    /\ \A i \in JobIds : TriggerRunning(i) => TempFileOf(i) \in files

\* C22: once the worker run of a job has ended, whether with a normalized
\* result, the synthetic result or an error, the file of the job has been
\* deleted.
C22_WorkerFileDeleted ==
    \A id \in JobIds :
        (run[id].path = "worker" /\ run[id].pc = "done") => UploadPath(id) \notin files

\* C27: a call of processQueuedFile that is rejected because the record of
\* its id holds no buffer leaves that record as it was.
C27_NoBufferLeavesRecord ==
    [][\A id \in JobIds :
         (Settles(id) /\ settled'.message = NoBuffer(id))
            => processingStatus'[id] = processingStatus[id]]_vars

\* a is a prefix of b
IsPrefix(a, b) == Len(a) <= Len(b) /\ SubSeq(b, 1, Len(a)) = a

\* C28: the pipeline runs at most once per buffered job: the record of a job
\* that has a processQueuedFile run holds no buffer, a record without buffer
\* never gets one, the run of a job is never started again (its calls only
\* grow), and a call rejected with buffer-not-found issues no OCR call.
C28_PipelineRunsOnce ==
    [][\A id \in JobIds :
         /\ run[id].path = "trigger" => ~processingStatus[id].buffer
         /\ (processingStatus[id].present /\ ~processingStatus[id].buffer)
               => ~processingStatus'[id].buffer
         /\ run[id].path = "trigger" =>
               /\ run'[id].path = "trigger"
               /\ IsPrefix(run[id].calls, run'[id].calls)
               /\ run'[id].retryCount >= run[id].retryCount
         /\ (Settles(id) /\ settled'.message = NoBuffer(id)) => run' = run]_vars

\* C28 witness: a second processQueuedFile call for a job whose run is under
\* way has just been rejected with buffer-not-found
C28_Witness ==
    \E id \in JobIds :
        /\ TriggerRunning(id)
        /\ run[id].retryCount > 0
        /\ settled = Rejected(id, NoBuffer(id))

\* the fallback call of the run r has failed
FallbackFailed(r) == r.lastError = CallError(MAX_RETRIES + 2)

\* the notifications the run r has emitted are the ones its failures call for
NotesOf(r) ==
    IF FallbackFailed(r) THEN <<MAX_RETRIES + 1, MAX_RETRIES + 2>>
    ELSE IF r.retryCount > MAX_RETRIES THEN <<MAX_RETRIES + 1>>
    ELSE <<>>

\* the run of id ends in this step through the policy for failed calls
EndsByFailure(id) ==
    /\ run[id].pc \in {"primary", "fallback"}
    /\ run'[id].pc = "done"
    /\ run'[id].lastError # run[id].lastError

\* C23: a run emits one notification with count R+1 when its R+1 primary
\* attempts are exhausted and one with count R+2 when its fallback call
\* fails, and no other: none while a primary attempt can still succeed or has
\* succeeded. The notifications are there when the terminal status is
\* written, and the outcome is what the failures alone determine: the
\* synthetic result in development mode, the last error otherwise.
C23_FailureNotifications ==
    [][\A id \in JobIds :
         /\ run'[id].notes = NotesOf(run'[id])
         /\ IsPrefix(run[id].notes, run'[id].notes) \/ run[id].pc = "done"
         /\ EndsByFailure(id) =>
               /\ run'[id].notes # <<>>
               /\ processingStatus'[id].status = IF IS_DEV_MODE THEN "completed" ELSE "error"
               /\ processingStatus'[id].result =
                     IF IS_DEV_MODE THEN createMockResult
                                    ELSE ErrorResult(run'[id].lastError)]_vars

\* C23 witness: a processQueuedFile run has ended in error after its fallback
\* call failed, with both notifications emitted
C23_Witness ==
    \E id \in JobIds :
        /\ run[id].path = "trigger"
        /\ run[id].pc = "done"
        /\ run[id].notes = <<MAX_RETRIES + 1, MAX_RETRIES + 2>>
        /\ processingStatus[id].status = "error"
        /\ processingStatus[id].result = ErrorResult(CallError(MAX_RETRIES + 2))

SynthesizedBase ==
    /\ nPc = "once"
    /\ nIn.k = "array"
    /\ FirstWithOutput(nIn.arr) = 0
    /\ ~nOut1.threw

\* the third element of arr has an `output.items` that is an array
ThirdHasItems(arr) ==
    /\ Len(arr) >= 3
    /\ arr[3].k = "object"
    /\ arr[3].obj.output.k = "object"
    /\ arr[3].obj.output.items.k = "array"

\* C24: when the base is synthesized from an array none of whose elements
\* has an `output`, the items of the result are the third element's
\* `output.items` if that element has an `output.items` that is an array, and
\* the empty array otherwise.
C24_SynthesizedItems ==
    SynthesizedBase =>
        nOut1.data.output.items =
            IF ThirdHasItems(nIn.arr) THEN nIn.arr[3].obj.output.items ELSE ItemsArr(<<>>)

\* C24 witness: a base synthesized from an array of three objects, with the
\* empty array of items
C24_Witness ==
    /\ SynthesizedBase
    /\ Len(nIn.arr) = 3
    /\ nIn.arr[3].k = "object"
    /\ nOut1.data.output.items = ItemsArr(<<>>)

\* the base the normalization of the payload at hand adopts: the single
\* object, or the first array element that has an `output`
AdoptedBase ==
    IF nIn.k = "array" THEN nIn.arr[FirstWithOutput(nIn.arr)].obj ELSE nIn.obj

\* the normalization of the payload at hand has adopted a base whose `output`
\* is an object
AdoptedWithOutput ==
    /\ nPc = "once"
    /\ ~nOut1.threw
    /\ nIn.k = "object" \/ (nIn.k = "array" /\ FirstWithOutput(nIn.arr) > 0)
    /\ AdoptedBase.output.k = "object"

\* the field f is the placeholder with value v, made at the reading of the
\* clock of the run, and marked confident or not as c says
IsPlaceholder(f, v, c) == f = [k |-> "object", value |-> v, is_confident |-> c, t |-> nNow]

\* the placeholders of the two passes: in the backfill of an adopted base the
\* reference number is marked confident and the date is marked as dateConfident
\* says; while synthesizing, both are marked not confident; the supplier is
\* the sentinel name in both
PlaceholderPolicy(dateConfident) ==
    /\ AdoptedWithOutput =>
          /\ ~Truthy(AdoptedBase.output.nomor_referensi) =>
                IsPlaceholder(nOut1.data.output.nomor_referensi, "INV-", TRUE)
          /\ ~Truthy(AdoptedBase.output.tanggal_faktur) =>
                IsPlaceholder(nOut1.data.output.tanggal_faktur, "today", dateConfident)
          /\ ~Truthy(AdoptedBase.output.nama_supplier) =>
                nOut1.data.output.nama_supplier = Fld("Unknown Supplier", FALSE)
    /\ SynthesizedBase =>
          /\ FirstDefining(nIn.arr, "nomor_referensi") = 0 =>
                IsPlaceholder(nOut1.data.output.nomor_referensi, "INV-", FALSE)
          /\ FirstDefining(nIn.arr, "tanggal_faktur") = 0 =>
                IsPlaceholder(nOut1.data.output.tanggal_faktur, "today", FALSE)
          /\ FirstDefining(nIn.arr, "nama_supplier") = 0 =>
                nOut1.data.output.nama_supplier = Fld("Unknown Supplier", FALSE)

Failures(r) == r.retryCount + IF FallbackFailed(r) THEN 1 ELSE 0

\* the outcomes of the calls the finished run r has made, in order
Outcomes(r) ==
    [i \in 1..Failures(r) |-> "failed"]
        \o IF Len(r.calls) > Failures(r) THEN <<"succeeded">> ELSE <<>>

\* the finished runs of w and t have seen nothing that tells the answers of
\* the service to the one from the answers to the other
SameOutcomes(w, t) ==
    \/ IsPrefix(Outcomes(run[w]), Outcomes(run[t]))
    \/ IsPrefix(Outcomes(run[t]), Outcomes(run[w]))

\* C26: under the same configuration and with the same outcomes and payloads
\* of the OCR calls, a job run by the worker and a job run by
\* processQueuedFile make the same endpoint calls and end in the same
\* terminal status with the same ocrData.
C26_WorkerAndTriggerAgree ==
    \A w, t \in JobIds :
        ( /\ run[w].path = "worker" /\ run[w].pc = "done" /\ Terminal(w)
          /\ run[t].path = "trigger" /\ run[t].pc = "done" /\ Terminal(t)
          /\ SameOutcomes(w, t) )
        => /\ run[w].calls = run[t].calls
           /\ processingStatus[w].status = processingStatus[t].status
           /\ processingStatus[w].result.ocrData = processingStatus[t].result.ocrData
====
